---- MODULE Spec2Model ----
(***************************************************************************)
(* A model of folly/io/async/ssl/OpenSSLUtils.cpp: the peer certificate    *)
(* name validator, the ALPN encoder, the master key / client random        *)
(* accessors, the cipher name cache, the PEM subject name reader and the   *)
(* socket BIO shims.  Each component has its own state variables and its   *)
(* own specification; the variables of the other components stay idle.     *)
(*                                                                         *)
(* Bytes are integers 0..255 and byte strings are sequences of bytes.  A    *)
(* pointer is a sequence of length at most one: NULL is the empty one,     *)
(* Ptr(x) points to x and Deref(p) is what p points to.                    *)
(***************************************************************************)
EXTENDS Integers, Sequences, FiniteSets, TLC

NULL == << >>
Ptr(x) == <<x>>
Deref(p) == p[1]

\* The sequences over S of length at most n.
SeqsUpTo(S, n) == UNION {[1..k -> S] : k \in 0..n}

\* The byte string of n bytes b.
Fill(n, b) == [i \in 1..n |-> b]

VARIABLES
  \* ---- validatePeerCertNames
  cert,        \* the X509: [altNames |-> NULL or Ptr(sequence of GENERAL_NAMEs)]
  addr,        \* the sockaddr pointer: NULL or Ptr([sa_family, sin_addr / sin6_addr])
  vres,        \* the outcome of the call: "unset", "true", "false", "abort"
  \* ---- encodeALPNString
  supportedProtocols,  \* the argument: a sequence of byte strings
  alpnStatus,          \* "unset", "ok" (returned) or "range_error" (thrown)
  alpnOut,             \* NULL until a string is returned, then Ptr(encodedALPN)
  alpnReserved,        \* the capacity passed to reserve()
  \* ---- getTLSMasterKey, getTLSClientRandom
  keyFn,         \* which accessor is called
  sessionKind,   \* what the shared SSLSession is (shared_ptr overload only)
  engineSecret,  \* the engine's master key or client random
  keyOut,        \* the caller's buffer (keyOut / randomOut), zeroed at first
  keyDone,       \* the accessor has returned
  keyRet,        \* its return value
  \* ---- the socket BIO method tables
  methTables,    \* table id -> BIO_METHOD; id 0 is the built-in BIO_s_socket()
  lastRead,      \* table id -> the read method last accepted for it, or NoMeth
  lastWrite,     \* table id -> the write method last accepted for it, or NoMeth
  bioRet,        \* what the last shim call returned
  \* ---- getBioShouldRetryWrite
  engineVariant,   \* "BORINGSSL" (OPENSSL_IS_BORINGSSL defined) or "OPENSSL"
  opensslWindows,  \* OPENSSL_WINDOWS is defined
  definedMacros,   \* the error macros the target OS defines
  errnoVal,        \* errno at the time of the call
  lastErrorVal,    \* GetLastError() at the time of the call
  nativeRetry,     \* what the engine's own BIO_sock_should_retry would answer
  retryArg,        \* r
  retryDone,       \* the call has returned
  retryRet,        \* its return value
  \* ---- getCipherName
  engineCiphers,     \* what SSL_get_ciphers enumerates: [id, name] in order
  ctxNewOk,          \* SSL_CTX_new succeeds
  sslNewOk,          \* SSL_new succeeds
  guard,             \* the static's initialisation: "uninit", "building", "done"
  cipherCodeToName,  \* the static map, a set of <<code, name>> pairs
  tpc,               \* thread -> where it is in getCipherName
  targ,              \* thread -> the cipherCode of its call
  bret,              \* thread -> ret of its getOpenSSLCipherNames
  bidx,              \* thread -> i of its loop over the ciphers
  buildCount,        \* how many times the static has been constructed
  returned,          \* every <<code, name>> a call has returned
  raced,             \* the constructing thread found another at the declaration
  \* ---- subjectNamesInPEMFile, subjectNamesInPEMBuffer
  pemFn,       \* "file" or "buffer"
  bioOk,       \* BIO_new_file / BIO_new_mem_buf succeeds
  pemSource,   \* the PEM blocks of the source: [ok, subject] in order
  bioPos,      \* the blocks the BIO has given out
  pemRet,      \* ret of getSubjectNamesFromBIO
  freedCerts,  \* the blocks whose X509 has been freed
  ppc          \* "start", "loop", "returned", "thrown"

validateVars == <<cert, addr, vres>>
alpnVars == <<supportedProtocols, alpnStatus, alpnOut, alpnReserved>>
keyVars == <<keyFn, sessionKind, engineSecret, keyOut, keyDone, keyRet>>
bioVars == <<methTables, lastRead, lastWrite, bioRet>>
retryVars == <<engineVariant, opensslWindows, definedMacros, errnoVal,
               lastErrorVal, nativeRetry, retryArg, retryDone, retryRet>>

cipherVars == <<engineCiphers, ctxNewOk, sslNewOk, guard, cipherCodeToName,
                tpc, targ, bret, bidx, buildCount, returned, raced>>
pemVars == <<pemFn, bioOk, pemSource, bioPos, pemRet, freedCerts, ppc>>

vars == <<validateVars, alpnVars, keyVars, bioVars, retryVars, cipherVars,
          pemVars>>

\* What the calls of one component leave alone: the other components.
othersValidate == <<alpnVars, keyVars, bioVars,
                    retryVars, cipherVars, pemVars>>
othersALPN == <<validateVars, keyVars, bioVars,
                retryVars, cipherVars, pemVars>>
othersKey == <<validateVars, alpnVars, bioVars,
               retryVars, cipherVars, pemVars>>
othersBio == <<validateVars, alpnVars, keyVars,
               retryVars, cipherVars, pemVars>>
othersRetry == <<validateVars, alpnVars, keyVars,
                 bioVars, cipherVars, pemVars>>
othersCipher == <<validateVars, alpnVars, keyVars,
                  bioVars, retryVars, pemVars>>
othersPEM == <<validateVars, alpnVars, keyVars,
               bioVars, retryVars, cipherVars>>

(***************************************************************************)
(* validatePeerCertNames                                                   *)
(***************************************************************************)
GEN_IPADD == "GEN_IPADD"
GEN_DNS == "GEN_DNS"
AF_INET == "AF_INET"
AF_INET6 == "AF_INET6"
AF_UNIX == "AF_UNIX"

\* ::memcmp(a, b, n) == 0 : the first n bytes of a and b are equal.
memcmpEq(a, b, n) == \A i \in 1..n : a[i] = b[i]

\* nameMatches without the test of the entry's type.
nameMatchesAnyType(name, addr4, addr6) ==
  IF addr4 # NULL \/ addr6 # NULL
  THEN LET rawIpStr == name.data
           rawIpLen == Len(name.data)
       IN  IF rawIpLen = 4 /\ addr4 # NULL
           THEN memcmpEq(rawIpStr, Deref(addr4).sin_addr, rawIpLen)
           ELSE IF rawIpLen = 16 /\ addr6 # NULL
                THEN memcmpEq(rawIpStr, Deref(addr6).sin6_addr, rawIpLen)
                ELSE FALSE
  ELSE FALSE

\* The body of one iteration of the loop over altNames: TRUE when the
\* iteration returns true, FALSE when it falls through to the next one.
nameMatches(name, addr4, addr6) ==
  IF (addr4 # NULL \/ addr6 # NULL) /\ name.type = GEN_IPADD
  THEN LET rawIpStr == name.data
           rawIpLen == Len(name.data)
       IN  IF rawIpLen = 4 /\ addr4 # NULL
           THEN memcmpEq(rawIpStr, Deref(addr4).sin_addr, rawIpLen)
           ELSE IF rawIpLen = 16 /\ addr6 # NULL
                THEN memcmpEq(rawIpStr, Deref(addr6).sin6_addr, rawIpLen)
                ELSE FALSE   \* a length other than 4 and 16 is only logged
  ELSE FALSE

\* for (int i = 0; i < sk_GENERAL_NAME_num(altNames); i++), from entry i on.
RECURSIVE altNamesLoop(_, _, _, _)
altNamesLoop(altNames, addr4, addr6, i) ==
  IF i > Len(altNames) THEN "false"
  ELSE IF nameMatches(altNames[i], addr4, addr6) THEN "true"
  ELSE altNamesLoop(altNames, addr4, addr6, i + 1)

\* addrFamily with the unsupported family logged and not fatal.
addrFamilyNoAbort(a) ==
  IF a # NULL
  THEN IF Deref(a).sa_family = AF_INET
       THEN [abort |-> FALSE, addr4 |-> a, addr6 |-> NULL]
       ELSE IF Deref(a).sa_family = AF_INET6
            THEN [abort |-> FALSE, addr4 |-> NULL, addr6 |-> a]
            ELSE [abort |-> FALSE, addr4 |-> NULL, addr6 |-> NULL]
  ELSE [abort |-> FALSE, addr4 |-> NULL, addr6 |-> NULL]

\* The family dispatch: abort is LOG(FATAL), otherwise the pair (addr4, addr6).
addrFamily(a) ==
  IF a # NULL
  THEN IF Deref(a).sa_family = AF_INET
       THEN [abort |-> FALSE, addr4 |-> a, addr6 |-> NULL]
       ELSE IF Deref(a).sa_family = AF_INET6
            THEN [abort |-> FALSE, addr4 |-> NULL, addr6 |-> a]
            ELSE [abort |-> TRUE, addr4 |-> NULL, addr6 |-> NULL]
  ELSE [abort |-> FALSE, addr4 |-> NULL, addr6 |-> NULL]

validatePeerCertNames(c, a) ==
  LET altNames == c.altNames IN
  IF altNames = NULL THEN "false"
  ELSE LET f == addrFamily(a) IN
       IF f.abort THEN "abort"
       ELSE altNamesLoop(Deref(altNames), f.addr4, f.addr6, 1)

\* ---- the inputs of the validator
MaxAltNames == 2

IP4a == <<192, 0, 2, 1>>
IP4b == <<192, 0, 2, 2>>
\* A 16 byte address whose first 4 bytes are those of IP4a.
IP6a == <<192, 0, 2, 1>> \o Fill(12, 0)
IP6b == <<32, 1, 13, 184>> \o Fill(11, 0) \o <<1>>
\* Entries of unexpected length: a prefix and an extension of IP4a.
Raw3 == <<192, 0, 2>>
Raw5 == <<192, 0, 2, 1, 0>>

GeneralNames ==
  [type : {GEN_IPADD, GEN_DNS}, data : {IP4a, IP4b, IP6a, IP6b, Raw3, Raw5}]

Certs == {[altNames |-> NULL]}
           \cup {[altNames |-> Ptr(s)] : s \in SeqsUpTo(GeneralNames, MaxAltNames)}

SockAddrs ==
  {NULL}
    \cup {Ptr([sa_family |-> AF_INET, sin_addr |-> b]) : b \in {IP4a, IP4b}}
    \cup {Ptr([sa_family |-> AF_INET6, sin6_addr |-> b]) : b \in {IP6a, IP6b}}
    \cup {Ptr([sa_family |-> AF_UNIX])}

StartValidate ==
  /\ cert \in Certs
  /\ addr \in SockAddrs
  /\ vres = "unset"

IdleValidate ==
  /\ cert = [altNames |-> NULL]
  /\ addr = NULL
  /\ vres = "unset"

ValidateCall ==
  /\ vres = "unset"
  /\ vres' = validatePeerCertNames(cert, addr)
  /\ UNCHANGED <<cert, addr>>
  /\ UNCHANGED othersValidate

NextValidate == ValidateCall

\* The peer address is an IPv4 or an IPv6 one.
PeerIsIPv4or6 ==
  addr # NULL /\ Deref(addr).sa_family \in {AF_INET, AF_INET6}

\* The peer address is of a family other than IPv4 and IPv6.
PeerIsUnsupported ==
  addr # NULL /\ Deref(addr).sa_family \notin {AF_INET, AF_INET6}

\* The subjectAltName list holds an IP entry of the peer's family whose
\* bytes are those of the peer address.
SanHoldsPeerIp ==
  /\ cert.altNames # NULL
  /\ \E i \in 1..Len(Deref(cert.altNames)) :
       LET n == Deref(cert.altNames)[i] IN
       /\ n.type = GEN_IPADD
       /\ \/ /\ Len(n.data) = 4
             /\ Deref(addr).sa_family = AF_INET
             /\ n.data = Deref(addr).sin_addr
          \/ /\ Len(n.data) = 16
             /\ Deref(addr).sa_family = AF_INET6
             /\ n.data = Deref(addr).sin6_addr

\* C1: for an IPv4 or IPv6 peer, validatePeerCertNames returns true exactly
\* when the subjectAltName list holds an IP entry of 4 (IPv4 peer) or 16
\* (IPv6 peer) bytes equal to the peer address, whatever precedes that entry,
\* and returns false in every other case.
C1_ValidateIffSanHoldsPeerIp ==
  (vres # "unset" /\ PeerIsIPv4or6)
    => vres = (IF SanHoldsPeerIp THEN "true" ELSE "false")

\* A match found behind an IP entry of unexpected length and a non-IP entry
\* is the case C1 singles out.
C1_Witness ==
  /\ vres = "true"
  /\ PeerIsIPv4or6
  /\ Len(Deref(cert.altNames)) = 2
  /\ LET first == Deref(cert.altNames)[1] IN
     first.type = GEN_IPADD /\ Len(first.data) \notin {4, 16}

\* C2 as stated: with a peer address of an unsupported family the call always
\* ends in a fatal abort, with or without a subjectAltName extension.
C2_UnsupportedFamilyAlwaysAborts ==
  (vres # "unset" /\ PeerIsUnsupported) => vres = "abort"

\* C2 as amended: with a peer address of an unsupported family the call ends
\* in a fatal abort when the certificate has a subjectAltName extension, and
\* returns false when it has none (the extension is looked at first).
C2_UnsupportedFamilyAbortsIffSan ==
  (vres # "unset" /\ PeerIsUnsupported)
    => vres = (IF cert.altNames # NULL THEN "abort" ELSE "false")

C2_Witness ==
  /\ vres = "abort"
  /\ PeerIsUnsupported
  /\ cert.altNames # NULL
  /\ Len(Deref(cert.altNames)) > 0

(***************************************************************************)
(* encodeALPNString                                                        *)
(***************************************************************************)
\* std::numeric_limits<uint8_t>::max()
UINT8_MAX == 255
\* static_cast<char> keeps the low 8 bits of the size.
CharModulus == 256

\* sizeExceedsMax with >= for >.
sizeReachesMax(proto) == Len(proto) >= UINT8_MAX

\* proto.size() > std::numeric_limits<uint8_t>::max()
sizeExceedsMax(proto) == Len(proto) > UINT8_MAX

\* The first loop, from protocol i on with the length summed so far: it
\* throws at the first oversized protocol, and else yields the total length
\* (an unsigned int, which only sizes the reservation; the sums of this
\* model stay far below its width).
RECURSIVE lengthLoop(_, _, _)
lengthLoop(protos, i, length) ==
  IF i > Len(protos) THEN [threw |-> FALSE, length |-> length]
  ELSE IF sizeExceedsMax(protos[i]) THEN [threw |-> TRUE, length |-> length]
  ELSE lengthLoop(protos, i + 1, length + Len(protos[i]) + 1)

\* appendProto writing a terminator behind the name and no length before it.
appendProtoTerminated(encodedALPN, proto) ==
  (encodedALPN \o proto) \o <<0>>

\* encodedALPN.append(1, static_cast<char>(proto.size()));
\* encodedALPN.append(proto);
appendProto(encodedALPN, proto) ==
  (encodedALPN \o <<Len(proto) % CharModulus>>) \o proto

\* The second loop, from protocol i on.
RECURSIVE appendLoop(_, _, _)
appendLoop(protos, i, encodedALPN) ==
  IF i > Len(protos) THEN encodedALPN
  ELSE appendLoop(protos, i + 1, appendProto(encodedALPN, protos[i]))

encodeALPNString(protos) ==
  LET l == lengthLoop(protos, 1, 0) IN
  IF l.threw
  THEN [status |-> "range_error", out |-> NULL, reserved |-> 0]
  ELSE [status |-> "ok",
        out |-> Ptr(appendLoop(protos, 1, << >>)),
        reserved |-> l.length]

\* ---- the inputs of the encoder
MaxNameLen == 2
MaxProtos == 2

\* Short names over bytes that also occur as length prefixes, "h2", and
\* names of 255 and 256 bytes.
AlpnNames ==
  SeqsUpTo({1, 2}, MaxNameLen)
    \cup {<<104, 50>>, Fill(UINT8_MAX, 97), Fill(UINT8_MAX + 1, 97)}

StartALPN ==
  /\ supportedProtocols \in SeqsUpTo(AlpnNames, MaxProtos)
  /\ alpnStatus = "unset"
  /\ alpnOut = NULL
  /\ alpnReserved = 0

IdleALPN ==
  /\ supportedProtocols = << >>
  /\ alpnStatus = "unset"
  /\ alpnOut = NULL
  /\ alpnReserved = 0

EncodeCall ==
  /\ alpnStatus = "unset"
  /\ LET r == encodeALPNString(supportedProtocols) IN
       /\ alpnStatus' = r.status
       /\ alpnOut' = r.out
       /\ alpnReserved' = r.reserved
  /\ UNCHANGED supportedProtocols
  /\ UNCHANGED othersALPN

NextALPN == EncodeCall

\* Splitting a byte string on its one-byte length prefixes; a prefix that
\* runs past the end yields a name no input holds.
RECURSIVE SplitOnPrefixes(_)
SplitOnPrefixes(bytes) ==
  IF bytes = << >> THEN << >>
  ELSE LET n == bytes[1] IN
       IF n + 1 > Len(bytes) THEN << <<-1>> >>
       ELSE <<SubSeq(bytes, 2, n + 1)>>
              \o SplitOnPrefixes(SubSeq(bytes, n + 2, Len(bytes)))

\* The sum of len(name) + 1 over the first k names.
RECURSIVE PrefixedLength(_, _)
PrefixedLength(protos, k) ==
  IF k = 0 THEN 0 ELSE PrefixedLength(protos, k - 1) + Len(protos[k]) + 1

AllNamesFit ==
  \A i \in 1..Len(supportedProtocols) : Len(supportedProtocols[i]) <= 255

\* C3: when every name has at most 255 bytes, the output splits on its
\* length prefixes into exactly the input list; name k stands at the offset
\* given by the names before it, as one length byte followed by its bytes;
\* and the total length (also the reserved capacity) is the sum of len + 1.
C3_AlpnRoundTrip ==
  (alpnStatus # "unset" /\ AllNamesFit)
    => /\ alpnStatus = "ok"
       /\ alpnOut # NULL
       /\ LET out == Deref(alpnOut)
              n == Len(supportedProtocols)
          IN  /\ SplitOnPrefixes(out) = supportedProtocols
              /\ Len(out) = PrefixedLength(supportedProtocols, n)
              /\ alpnReserved = Len(out)
              /\ \A k \in 1..n :
                   LET off == PrefixedLength(supportedProtocols, k - 1) IN
                   /\ out[off + 1] = Len(supportedProtocols[k])
                   /\ SubSeq(out, off + 2, off + 1 + Len(supportedProtocols[k]))
                        = supportedProtocols[k]

\* Two names, one of them empty and one of them of a byte that is also a
\* length prefix, have been encoded.
C3_Witness ==
  /\ alpnStatus = "ok"
  /\ Len(supportedProtocols) = 2
  /\ supportedProtocols[1] = << >>
  /\ supportedProtocols[2] = <<1, 2>>

\* C4: the call fails exactly when some name has more than 255 bytes,
\* wherever it stands; a failed call returns no bytes, and a name of
\* exactly 255 bytes is accepted.
C4_AlpnFailsIffOversized ==
  alpnStatus # "unset"
    => /\ alpnStatus = "range_error" <=> ~AllNamesFit
       /\ alpnStatus = "range_error" => alpnOut = NULL
       /\ alpnStatus = "ok" => alpnOut # NULL

\* The oversized name stands behind a valid one of 255 bytes.
C4_Witness ==
  /\ alpnStatus = "range_error"
  /\ Len(supportedProtocols) = 2
  /\ Len(supportedProtocols[1]) = 255
  /\ Len(supportedProtocols[2]) = 256

(***************************************************************************)
(* getTLSMasterKey, getTLSClientRandom                                     *)
(***************************************************************************)
\* SSL_SESSION_get_master_key(session, out, outlen) and
\* SSL_get_client_random(ssl, out, outlen): with outlen 0 the engine answers
\* the size of the secret and writes nothing; otherwise it copies
\* min(outlen, size) bytes into out and answers their number.
engineGetSecret(secret, out, outlen) ==
  IF outlen = 0 THEN [ret |-> Len(secret), out |-> out]
  ELSE LET n == IF outlen < Len(secret) THEN outlen ELSE Len(secret) IN
       [ret |-> n,
        out |-> [i \in 1..Len(out) |-> IF i <= n THEN secret[i] ELSE out[i]]]

\* sizeMatches accepting every buffer the secret fits in.
sizeFits(size, bufSize) == size <= bufSize

\* size == keyOut.size()
sizeMatches(size, bufSize) == size = bufSize

\* getTLSMasterKey(const SSL_SESSION*, keyOut) and
\* getTLSClientRandom(const SSL*, randomOut); the size_t the engine answers
\* converts to bool as "not zero".
getTLSSecret(secret, out) ==
  LET size == engineGetSecret(secret, out, 0).ret IN
  IF sizeMatches(size, Len(out))
  THEN LET r == engineGetSecret(secret, out, Len(out)) IN
       [ret |-> r.ret # 0, out |-> r.out]
  ELSE [ret |-> FALSE, out |-> out]

\* getTLSMasterKey(std::shared_ptr<SSLSession>, keyOut): only an
\* OpenSSLSession with an active raw session is asked for its key.
getTLSMasterKeyShared(kind, secret, out) ==
  IF kind \in {"OpenSSLSession_active", "OpenSSLSession_inactive"}
  THEN IF kind = "OpenSSLSession_active"
       THEN getTLSSecret(secret, out)
       ELSE [ret |-> FALSE, out |-> out]
  ELSE [ret |-> FALSE, out |-> out]

\* ---- the inputs of the accessors
MaxSecretLen == 2
MaxBufLen == 3

SessionKinds ==
  {"OpenSSLSession_active", "OpenSSLSession_inactive", "OtherSession"}

\* The secret's bytes are not zero, the buffer's are: a written byte shows.
StartKey ==
  /\ keyFn \in {"getTLSMasterKey", "getTLSMasterKey_shared",
                "getTLSClientRandom"}
  /\ sessionKind \in SessionKinds
  /\ keyFn # "getTLSMasterKey_shared" => sessionKind = "OpenSSLSession_active"
  /\ engineSecret \in SeqsUpTo({1, 2}, MaxSecretLen)
  /\ keyOut \in {Fill(n, 0) : n \in 0..MaxBufLen}
  /\ keyDone = FALSE
  /\ keyRet = FALSE

IdleKey ==
  /\ keyFn = "getTLSMasterKey"
  /\ sessionKind = "OpenSSLSession_active"
  /\ engineSecret = << >>
  /\ keyOut = << >>
  /\ keyDone = FALSE
  /\ keyRet = FALSE

KeyCall ==
  /\ ~keyDone
  /\ LET r == IF keyFn = "getTLSMasterKey_shared"
              THEN getTLSMasterKeyShared(sessionKind, engineSecret, keyOut)
              ELSE getTLSSecret(engineSecret, keyOut)
     IN  /\ keyRet' = r.ret
         /\ keyOut' = r.out
  /\ keyDone' = TRUE
  /\ UNCHANGED <<keyFn, sessionKind, engineSecret>>
  /\ UNCHANGED othersKey

NextKey == KeyCall

\* C5: when the buffer size differs from the engine's size the accessor
\* returns false and the buffer is as it was (all zero); when it returns
\* true the sizes are equal and the buffer holds exactly the secret.
C5_ExactSizeOrFalse ==
  keyDone
    => /\ Len(keyOut) # Len(engineSecret)
            => (~keyRet /\ keyOut = Fill(Len(keyOut), 0))
       /\ keyRet => (Len(keyOut) = Len(engineSecret) /\ keyOut = engineSecret)

\* A buffer larger than the secret has been refused, untouched.
C5_Witness ==
  /\ keyDone
  /\ ~keyRet
  /\ Len(engineSecret) = 2
  /\ Len(keyOut) = 3

(***************************************************************************)
(* newSocketBioMethod, setCustomBioReadMethod, setCustomBioWriteMethod     *)
(***************************************************************************)
NoMeth == "none"

\* The engine's built-in socket method table, BIO_s_socket().
BuiltinTable ==
  [allocated |-> TRUE, type |-> "BIO_TYPE_SOCKET", name |-> "socket",
   create |-> "sock_new", destroy |-> "sock_free", ctrl |-> "sock_ctrl",
   callback_ctrl |-> "sock_callback_ctrl", bread |-> "sock_read",
   bwrite |-> "sock_write", bgets |-> "sock_gets", bputs |-> "sock_puts"]

\* A slot no table has been allocated in.
FreeSlot ==
  [allocated |-> FALSE, type |-> NoMeth, name |-> NoMeth,
   create |-> NoMeth, destroy |-> NoMeth, ctrl |-> NoMeth,
   callback_ctrl |-> NoMeth, bread |-> NoMeth, bwrite |-> NoMeth,
   bgets |-> NoMeth, bputs |-> NoMeth]

\* BIO_meth_new(BIO_TYPE_SOCKET, "socket_bio_method"): every method unset.
bioMethNew ==
  [FreeSlot EXCEPT !.allocated = TRUE, !.type = "BIO_TYPE_SOCKET",
                   !.name = "socket_bio_method"]

\* The eight BIO_meth_set_x(newmeth, BIO_meth_get_x(meth)) of
\* newSocketBioMethod.
copyMethods(newmeth, meth) ==
  [newmeth EXCEPT !.create = meth.create,
                  !.destroy = meth.destroy,
                  !.ctrl = meth.ctrl,
                  !.callback_ctrl = meth.callback_ctrl,
                  !.bread = meth.bread,
                  !.bwrite = meth.bwrite,
                  !.bgets = meth.bgets,
                  !.bputs = meth.bputs]

\* bioMethSetRead that sets the write method as well.
bioMethSetReadAndWrite(bioMeth, meth) ==
  [bioMeth EXCEPT !.bread = meth, !.bwrite = meth]

\* BIO_meth_set_read(bioMeth, meth) and BIO_meth_set_write(bioMeth, meth),
\* when the engine accepts them.
bioMethSetRead(bioMeth, meth) == [bioMeth EXCEPT !.bread = meth]
bioMethSetWrite(bioMeth, meth) == [bioMeth EXCEPT !.bwrite = meth]

\* ---- the bounds and inputs of the shim
MaxTables == 2

TableIds == 0..MaxTables
CustomMeths == {"customA", "customB"}

StartBio ==
  /\ methTables = [t \in TableIds |-> IF t = 0 THEN BuiltinTable ELSE FreeSlot]
  /\ lastRead = [t \in TableIds |-> NoMeth]
  /\ lastWrite = [t \in TableIds |-> NoMeth]
  /\ bioRet = "unset"

IdleBio ==
  /\ methTables = [t \in TableIds |-> IF t = 0 THEN BuiltinTable ELSE FreeSlot]
  /\ lastRead = [t \in TableIds |-> NoMeth]
  /\ lastWrite = [t \in TableIds |-> NoMeth]
  /\ bioRet = "unset"

\* newSocketBioMethod(): the engine may fail to allocate the table, and the
\* call then returns nullptr; the new table is one no caller holds yet.
NewSocketBioMethod ==
  /\ \E allocOk \in BOOLEAN :
        IF ~allocOk
        THEN /\ bioRet' = "nullptr"
             /\ UNCHANGED <<methTables, lastRead, lastWrite>>
        ELSE /\ \E t \in TableIds : ~methTables[t].allocated
             /\ LET t == CHOOSE x \in TableIds : ~methTables[x].allocated
                    meth == methTables[0]
                IN  methTables' =
                      [methTables EXCEPT ![t] = copyMethods(bioMethNew, meth)]
             /\ bioRet' = "table"
             /\ UNCHANGED <<lastRead, lastWrite>>
  /\ UNCHANGED othersBio

\* setCustomBioReadMethod(bioMeth, meth) on a table newSocketBioMethod
\* returned; the engine accepts the replacement (answers 1) or not.
SetCustomBioReadMethod ==
  /\ \E t \in TableIds \ {0}, meth \in CustomMeths, accepted \in BOOLEAN :
        /\ methTables[t].allocated
        /\ IF accepted
           THEN /\ methTables' =
                     [methTables EXCEPT ![t] = bioMethSetRead(methTables[t], meth)]
                /\ lastRead' = [lastRead EXCEPT ![t] = meth]
                /\ bioRet' = "true"
           ELSE /\ bioRet' = "false"
                /\ UNCHANGED <<methTables, lastRead>>
        /\ UNCHANGED lastWrite
  /\ UNCHANGED othersBio

SetCustomBioWriteMethod ==
  /\ \E t \in TableIds \ {0}, meth \in CustomMeths, accepted \in BOOLEAN :
        /\ methTables[t].allocated
        /\ IF accepted
           THEN /\ methTables' =
                     [methTables EXCEPT ![t] = bioMethSetWrite(methTables[t], meth)]
                /\ lastWrite' = [lastWrite EXCEPT ![t] = meth]
                /\ bioRet' = "true"
           ELSE /\ bioRet' = "false"
                /\ UNCHANGED <<methTables, lastWrite>>
        /\ UNCHANGED lastRead
  /\ UNCHANGED othersBio

NextBio ==
  \/ NewSocketBioMethod
  \/ SetCustomBioReadMethod
  \/ SetCustomBioWriteMethod

\* C9: every table made by newSocketBioMethod keeps the built-in create,
\* destroy, control, callback-control, line-read and line-write; its read is
\* the last accepted custom read (the built-in one if none), its write the
\* last accepted custom write (the built-in one if none); and the built-in
\* table is as the engine made it.
C9_OnlyReadWriteOverridden ==
  /\ methTables[0] = BuiltinTable
  /\ \A t \in TableIds \ {0} :
       methTables[t].allocated
         => /\ methTables[t].create = BuiltinTable.create
            /\ methTables[t].destroy = BuiltinTable.destroy
            /\ methTables[t].ctrl = BuiltinTable.ctrl
            /\ methTables[t].callback_ctrl = BuiltinTable.callback_ctrl
            /\ methTables[t].bgets = BuiltinTable.bgets
            /\ methTables[t].bputs = BuiltinTable.bputs
            /\ methTables[t].bread =
                 (IF lastRead[t] = NoMeth THEN BuiltinTable.bread
                  ELSE lastRead[t])
            /\ methTables[t].bwrite =
                 (IF lastWrite[t] = NoMeth THEN BuiltinTable.bwrite
                  ELSE lastWrite[t])

\* A table whose read was replaced and whose write is still the built-in
\* one, next to a table whose write was replaced and whose read was not.
C9_Witness ==
  /\ methTables[1].allocated /\ methTables[2].allocated
  /\ methTables[1].bread = "customA"
  /\ methTables[1].bwrite = "sock_write"
  /\ methTables[2].bwrite = "customB"
  /\ methTables[2].bread = "sock_read"

(***************************************************************************)
(* getBioShouldRetryWrite                                                  *)
(***************************************************************************)
\* The error codes boringssl_bio_fd_non_fatal_error names, each under its
\* #ifdef.
NonFatalMacros ==
  {"EWOULDBLOCK", "WSAEWOULDBLOCK", "ENOTCONN", "EINTR", "EAGAIN", "EPROTO",
   "EINPROGRESS", "EALREADY"}

\* Error codes it does not name.
OtherErrors == {"EPIPE", "ECONNRESET"}

boringssl_bio_fd_non_fatal_error(err, defined) ==
  IF \E m \in NonFatalMacros \cap defined : err = m THEN 1 ELSE 0

\* isErrorReturn taking 0 for an error return too.
isErrorReturnOrZero(i) == i = -1 \/ i = 0

\* The return code that asks for a look at the error code.
isErrorReturn(i) == i = -1

\* boringssl_bio_fd_should_retry(i): GetLastError() under OPENSSL_WINDOWS,
\* errno otherwise.
boringssl_bio_fd_should_retry(i, windows, defined, err, lastError) ==
  IF isErrorReturn(i)
  THEN boringssl_bio_fd_non_fatal_error(
         IF windows THEN lastError ELSE err, defined)
  ELSE 0

\* getBioShouldRetryWrite(r): the engine's own answer where it has one.
getBioShouldRetryWrite(r, variant, windows, defined, err, lastError, native) ==
  IF variant = "BORINGSSL"
  THEN boringssl_bio_fd_should_retry(r, windows, defined, err, lastError)
  ELSE native

\* ---- the bounds and inputs of the retry query
MaxAbsRet == 2
MaxUndefined == 1

ErrorCodes == NonFatalMacros \cup OtherErrors

StartRetry ==
  /\ engineVariant \in {"BORINGSSL", "OPENSSL"}
  /\ opensslWindows \in BOOLEAN
  /\ definedMacros \in
       {NonFatalMacros \ u :
          u \in {x \in SUBSET NonFatalMacros : Cardinality(x) <= MaxUndefined}}
  /\ errnoVal \in ErrorCodes
  /\ lastErrorVal \in ErrorCodes
  /\ nativeRetry \in {0, 1}
  /\ retryArg \in (-MaxAbsRet)..MaxAbsRet
  /\ retryDone = FALSE
  /\ retryRet = 0

IdleRetry ==
  /\ engineVariant = "OPENSSL"
  /\ opensslWindows = FALSE
  /\ definedMacros = NonFatalMacros
  /\ errnoVal = "EPIPE"
  /\ lastErrorVal = "EPIPE"
  /\ nativeRetry = 0
  /\ retryArg = 0
  /\ retryDone = FALSE
  /\ retryRet = 0

RetryCall ==
  /\ ~retryDone
  /\ retryRet' = getBioShouldRetryWrite(retryArg, engineVariant, opensslWindows,
                   definedMacros, errnoVal, lastErrorVal, nativeRetry)
  /\ retryDone' = TRUE
  /\ UNCHANGED <<engineVariant, opensslWindows, definedMacros, errnoVal,
                 lastErrorVal, nativeRetry, retryArg>>
  /\ UNCHANGED othersRetry

NextRetry == RetryCall

\* The last OS error code: GetLastError() on Windows, errno elsewhere.
LastOsError == IF opensslWindows THEN lastErrorVal ELSE errnoVal

\* C10: without a native retry query, the answer is 1 exactly when r is -1
\* and the last OS error is one of the listed codes that the target OS
\* defines; it is 0 for every other r and for every other error code.
C10_RetryIffMinusOneAndNonFatal ==
  (retryDone /\ engineVariant = "BORINGSSL")
    => retryRet =
         (IF retryArg = -1
             /\ LastOsError \in
                  ({"EWOULDBLOCK", "WSAEWOULDBLOCK", "ENOTCONN", "EINTR",
                    "EAGAIN", "EPROTO", "EINPROGRESS", "EALREADY"}
                     \cap definedMacros)
          THEN 1 ELSE 0)

\* On Windows, r = -1 with a retry-worthy GetLastError() and a fatal errno.
C10_Witness ==
  /\ retryDone
  /\ engineVariant = "BORINGSSL"
  /\ opensslWindows
  /\ retryArg = -1
  /\ lastErrorVal = "WSAEWOULDBLOCK"
  /\ errnoVal = "EPIPE"
  /\ retryRet = 1

(***************************************************************************)
(* getOpenSSLCipherNames, getCipherName                                    *)
(***************************************************************************)
\* id & 0xffffUL
MaskModulus == 65536
maskId(id) == id % MaskModulus

\* mapAssign keeping the first name of a code (emplace for operator[]).
mapEmplace(map, code, name) ==
  IF \E p \in map : p[1] = code THEN map ELSE map \cup {<<code, name>>}

\* ret[cipherCode] = name on a std::unordered_map: a later name replaces an
\* earlier one of the same code.
mapAssign(map, code, name) ==
  {p \in map : p[1] # code} \cup {<<code, name>>}

\* cipherCodeToName.find(cipherCode): the name, or the static empty string.
mapFind(map, code) ==
  IF \E p \in map : p[1] = code
  THEN (CHOOSE p \in map : p[1] = code)[2]
  ELSE ""

\* mayConstruct without the guard: every thread that finds the static not
\* yet constructed constructs it.
mayConstructUnguarded(g) == g # "done"

\* A thread reaching the declaration of the static constructs it when no
\* thread has begun to; it waits while another thread constructs it.
mayConstruct(g) == g = "uninit"

\* ---- the bounds and inputs of the cache
NumThreads == 2
MaxCiphers == 2

Threads == 1..NumThreads

\* Two ciphers whose native identifiers share their low 16 bits (one with a
\* protocol version in the high bits), and a third one.
CipherPool ==
  {[id |-> 50336513, name |-> "TLS_AES_128_GCM_SHA256"],
   [id |-> 4865, name |-> "LEGACY_1301"],
   [id |-> 50331695, name |-> "AES128-SHA"]}

CipherCodes == {4865, 47}

StartCipher ==
  /\ engineCiphers \in SeqsUpTo(CipherPool, MaxCiphers)
  /\ ctxNewOk \in BOOLEAN
  /\ sslNewOk \in BOOLEAN
  /\ ~ctxNewOk => ~sslNewOk   \* no connection object without a context
  /\ guard = "uninit"
  /\ cipherCodeToName = {}
  /\ tpc = [t \in Threads |-> "idle"]
  /\ targ = [t \in Threads |-> 0]
  /\ bret = [t \in Threads |-> {}]
  /\ bidx = [t \in Threads |-> 0]
  /\ buildCount = 0
  /\ returned = {}
  /\ raced = FALSE

IdleCipher ==
  /\ engineCiphers = << >>
  /\ ctxNewOk = TRUE
  /\ sslNewOk = TRUE
  /\ guard = "uninit"
  /\ cipherCodeToName = {}
  /\ tpc = << >>
  /\ targ = << >>
  /\ bret = << >>
  /\ bidx = << >>
  /\ buildCount = 0
  /\ returned = {}
  /\ raced = FALSE

engineState == <<engineCiphers, ctxNewOk, sslNewOk>>

\* A thread calls getCipherName(cipherCode).
CipherCall(t) ==
  /\ tpc[t] = "idle"
  /\ \E code \in CipherCodes : targ' = [targ EXCEPT ![t] = code]
  /\ tpc' = [tpc EXCEPT ![t] = "static"]
  /\ UNCHANGED <<engineState, guard, cipherCodeToName, bret, bidx, buildCount,
                 returned, raced>>
  /\ UNCHANGED othersCipher

\* The static is constructed already: on to the lookup.
StaticDone(t) ==
  /\ tpc[t] = "static"
  /\ guard = "done"
  /\ tpc' = [tpc EXCEPT ![t] = "find"]
  /\ UNCHANGED <<engineState, guard, cipherCodeToName, targ, bret, bidx,
                 buildCount, returned, raced>>
  /\ UNCHANGED othersCipher

\* The thread begins the construction: getOpenSSLCipherNames() starts with
\* an empty ret.
StaticBegin(t) ==
  /\ tpc[t] = "static"
  /\ guard # "done"
  /\ mayConstruct(guard)
  /\ guard' = "building"
  /\ bret' = [bret EXCEPT ![t] = {}]
  /\ tpc' = [tpc EXCEPT ![t] = "ctx"]
  /\ raced' = (raced \/ \E u \in Threads \ {t} : tpc[u] = "static")
  /\ UNCHANGED <<engineState, cipherCodeToName, targ, bidx, buildCount,
                 returned>>
  /\ UNCHANGED othersCipher

\* if ((ctx = SSL_CTX_new(meth)) == nullptr) return ret;
CtxNew(t) ==
  /\ tpc[t] = "ctx"
  /\ tpc' = [tpc EXCEPT ![t] = IF ctxNewOk THEN "ssl" ELSE "construct"]
  /\ UNCHANGED <<engineState, guard, cipherCodeToName, targ, bret, bidx,
                 buildCount, returned, raced>>
  /\ UNCHANGED othersCipher

\* if ((ssl = SSL_new(ctx)) == nullptr) return ret;
SslNew(t) ==
  /\ tpc[t] = "ssl"
  /\ tpc' = [tpc EXCEPT ![t] = IF sslNewOk THEN "loop" ELSE "construct"]
  /\ bidx' = [bidx EXCEPT ![t] = 1]
  /\ UNCHANGED <<engineState, guard, cipherCodeToName, targ, bret,
                 buildCount, returned, raced>>
  /\ UNCHANGED othersCipher

\* One iteration of the loop over the ciphers, or its end.
CipherLoop(t) ==
  /\ tpc[t] = "loop"
  /\ IF bidx[t] <= Len(engineCiphers)
     THEN LET c == engineCiphers[bidx[t]] IN
          /\ bret' = [bret EXCEPT ![t] = mapAssign(@, maskId(c.id), c.name)]
          /\ bidx' = [bidx EXCEPT ![t] = @ + 1]
          /\ UNCHANGED tpc
     ELSE /\ tpc' = [tpc EXCEPT ![t] = "construct"]
          /\ UNCHANGED <<bret, bidx>>
  /\ UNCHANGED <<engineState, guard, cipherCodeToName, targ, buildCount,
                 returned, raced>>
  /\ UNCHANGED othersCipher

\* The static is constructed from what getOpenSSLCipherNames returned, and
\* its initialisation is complete.
StaticConstruct(t) ==
  /\ tpc[t] = "construct"
  /\ cipherCodeToName' = bret[t]
  /\ guard' = "done"
  /\ buildCount' = buildCount + 1
  /\ tpc' = [tpc EXCEPT ![t] = "find"]
  /\ UNCHANGED <<engineState, targ, bret, bidx, returned, raced>>
  /\ UNCHANGED othersCipher

\* The lookup and the return.
CipherFind(t) ==
  /\ tpc[t] = "find"
  /\ returned' =
       returned \cup {<<targ[t], mapFind(cipherCodeToName, targ[t])>>}
  /\ tpc' = [tpc EXCEPT ![t] = "idle"]
  /\ UNCHANGED <<engineState, guard, cipherCodeToName, targ, bret, bidx,
                 buildCount, raced>>
  /\ UNCHANGED othersCipher

NextCipher ==
  \E t \in Threads :
    \/ CipherCall(t)
    \/ StaticDone(t)
    \/ StaticBegin(t)
    \/ CtxNew(t)
    \/ SslNew(t)
    \/ CipherLoop(t)
    \/ StaticConstruct(t)
    \/ CipherFind(t)

\* The positions of the enumerated ciphers whose native identifier has the
\* given low 16 bits.
CiphersOfCode(code) ==
  {i \in 1..Len(engineCiphers) : engineCiphers[i].id % 65536 = code}

\* C6: a call returns the name of the last enumerated cipher whose native
\* identifier is the id modulo 2^16, the empty string when there is none,
\* and the empty string whenever the transient context or connection could
\* not be made.
C6_NameOfLastCipherOfCode ==
  \A p \in returned :
    p[2] = (IF ctxNewOk /\ sslNewOk /\ CiphersOfCode(p[1]) # {}
            THEN LET last == CHOOSE i \in CiphersOfCode(p[1]) :
                               \A j \in CiphersOfCode(p[1]) : j <= i
                 IN  engineCiphers[last].name
            ELSE "")

\* Two enumerated ciphers share the low 16 bits looked up, and a call has
\* returned the later one.
C6_Witness ==
  /\ Len(engineCiphers) = 2
  /\ engineCiphers[1].id = 4865
  /\ engineCiphers[2].id = 50336513
  /\ <<4865, "TLS_AES_128_GCM_SHA256">> \in returned

\* No call looks the table up before its one construction is complete, and
\* no two calls have returned different names for one id.
CipherTableBuiltOnce ==
  /\ buildCount <= 1
  /\ guard = "done" <=> buildCount = 1
  /\ \A t \in Threads : tpc[t] = "find" => guard = "done"
  /\ returned # {} => guard = "done"
  /\ \A p, q \in returned : p[1] = q[1] => p[2] = q[2]
  /\ \A p \in returned : mapFind(cipherCodeToName, p[1]) = p[2]

\* C7: under every interleaving the table is constructed exactly once, no
\* call reads it before that, it is never modified once constructed, and
\* calls with the same id return the same name.
C7_BuiltOnceThenFrozen ==
  /\ []CipherTableBuiltOnce
  /\ [][guard = "done" => cipherCodeToName' = cipherCodeToName]_vars

\* Two threads raced on the first call: one constructed the table while the
\* other stood at the declaration; calls for both ids have returned since.
C7_Witness ==
  /\ raced
  /\ buildCount = 1
  /\ \A t \in Threads : tpc[t] = "idle"
  /\ \A code \in CipherCodes : \E p \in returned : p[1] = code
  /\ \E p \in returned : p[2] # ""

(***************************************************************************)
(* forEachX509, getSubjectNamesFromBIO, subjectNamesInPEMFile/Buffer       *)
(***************************************************************************)
\* PEM_read_bio_X509(source, ...): the next block's certificate, or nullptr
\* at the end of the source and at a block that does not decode.
pemReadBioX509(source, pos) ==
  IF pos < Len(source) /\ source[pos + 1].ok
  THEN Ptr([subject |-> source[pos + 1].subject, block |-> pos + 1])
  ELSE NULL

\* X509_NAME_dup(X509_get_subject_name(x)): a copy the caller owns, which
\* borrows from no certificate.
dupSubjectName(x) == [subject |-> x.subject, borrowedFrom |-> 0]

\* forEachX509Step that passes over a block that does not decode and
\* stops only at the end of the source.
forEachX509StepSkipBad(source, pos, ret, freed) ==
  LET x509 == pemReadBioX509(source, pos) IN
  IF x509 = NULL
  THEN [break |-> pos >= Len(source),
        pos |-> IF pos >= Len(source) THEN pos ELSE pos + 1,
        ret |-> ret, freed |-> freed]
  ELSE [break |-> FALSE,
        pos |-> pos + 1,
        ret |-> Append(ret, [subject |-> Deref(x509).subject,
                             borrowedFrom |-> 0]),
        freed |-> freed \cup {Deref(x509).block}]

\* One iteration of the while (true) of forEachX509 with the callback of
\* getSubjectNamesFromBIO; the X509UniquePtr frees the certificate at the
\* end of the iteration.
forEachX509Step(source, pos, ret, freed) ==
  LET x509 == pemReadBioX509(source, pos) IN
  IF x509 = NULL
  THEN [break |-> TRUE, pos |-> pos, ret |-> ret, freed |-> freed]
  ELSE [break |-> FALSE,
        pos |-> pos + 1,
        ret |-> Append(ret, dupSubjectName(Deref(x509))),
        freed |-> freed \cup {Deref(x509).block}]

\* ---- the bounds and inputs of the reader
MaxBlocks == 3

PemBlocks == [ok : {TRUE}, subject : {"CN=a", "CN=b"}]
               \cup [ok : {FALSE}, subject : {""}]

StartPEM ==
  /\ pemFn \in {"file", "buffer"}
  /\ bioOk \in BOOLEAN
  /\ pemSource \in SeqsUpTo(PemBlocks, MaxBlocks)
  /\ bioPos = 0
  /\ pemRet = << >>
  /\ freedCerts = {}
  /\ ppc = "start"

IdlePEM ==
  /\ pemFn = "file"
  /\ bioOk = TRUE
  /\ pemSource = << >>
  /\ bioPos = 0
  /\ pemRet = << >>
  /\ freedCerts = {}
  /\ ppc = "start"

\* BIO_new_file / BIO_new_mem_buf, and the throw when it yields no BIO.
PemOpen ==
  /\ ppc = "start"
  /\ ppc' = IF bioOk THEN "loop" ELSE "thrown"
  /\ UNCHANGED <<pemFn, bioOk, pemSource, bioPos, pemRet, freedCerts>>
  /\ UNCHANGED othersPEM

PemReadOne ==
  /\ ppc = "loop"
  /\ LET r == forEachX509Step(pemSource, bioPos, pemRet, freedCerts) IN
       /\ bioPos' = r.pos
       /\ pemRet' = r.ret
       /\ freedCerts' = r.freed
       /\ ppc' = IF r.break THEN "returned" ELSE "loop"
  /\ UNCHANGED <<pemFn, bioOk, pemSource>>
  /\ UNCHANGED othersPEM

NextPEM == PemOpen \/ PemReadOne

\* The blocks before the first one that does not decode.
RECURSIVE DecodablePrefix(_)
DecodablePrefix(blocks) ==
  IF blocks = << >> \/ ~Head(blocks).ok THEN << >>
  ELSE <<Head(blocks)>> \o DecodablePrefix(Tail(blocks))

\* A call throws only when the source could not be opened; a call that
\* returns yields, in order, an owned copy of the subject of each block
\* before the first undecodable one, and nothing behind it; the names held
\* never borrow from a freed certificate.
PemResultIsDecodablePrefix ==
  /\ ppc = "thrown" => ~bioOk
  /\ ~bioOk => ppc \in {"start", "thrown"}
  /\ ppc = "returned"
       => LET good == DecodablePrefix(pemSource) IN
          /\ Len(pemRet) = Len(good)
          /\ \A i \in 1..Len(good) :
               /\ pemRet[i].subject = good[i].subject
               /\ pemRet[i].borrowedFrom = 0
  /\ \A i \in 1..Len(pemRet) : pemRet[i].borrowedFrom \notin freedCerts

\* C8: the readers fail hard only when the source cannot be opened; once it
\* is open the loop ends, returning the subject names of the certificates
\* decoded before the end or the first failure.
C8_PemTerminatesWithPrefix ==
  /\ []PemResultIsDecodablePrefix
  /\ <>(ppc \in {"returned", "thrown"})

\* A source whose second block does not decode and whose third does: only
\* the first name has been returned.
C8_Witness ==
  /\ ppc = "returned"
  /\ Len(pemSource) = 3
  /\ pemSource[1].ok /\ ~pemSource[2].ok /\ pemSource[3].ok
  /\ Len(pemRet) = 1

(***************************************************************************)
(* The specifications, one per component                                   *)
(***************************************************************************)
InitValidate ==
  /\ StartValidate
  /\ IdleALPN /\ IdleKey /\ IdleBio
  /\ IdleRetry /\ IdleCipher /\ IdlePEM

InitALPN ==
  /\ StartALPN
  /\ IdleValidate /\ IdleKey /\ IdleBio
  /\ IdleRetry /\ IdleCipher /\ IdlePEM

InitKey ==
  /\ StartKey
  /\ IdleValidate /\ IdleALPN /\ IdleBio
  /\ IdleRetry /\ IdleCipher /\ IdlePEM

InitBio ==
  /\ StartBio
  /\ IdleValidate /\ IdleALPN /\ IdleKey
  /\ IdleRetry /\ IdleCipher /\ IdlePEM

InitRetry ==
  /\ StartRetry
  /\ IdleValidate /\ IdleALPN /\ IdleKey
  /\ IdleBio /\ IdleCipher /\ IdlePEM

InitCipher ==
  /\ StartCipher
  /\ IdleValidate /\ IdleALPN /\ IdleKey
  /\ IdleBio /\ IdleRetry /\ IdlePEM

InitPEM ==
  /\ StartPEM
  /\ IdleValidate /\ IdleALPN /\ IdleKey
  /\ IdleBio /\ IdleRetry /\ IdleCipher

SpecValidate == InitValidate /\ [][NextValidate]_vars

SpecALPN == InitALPN /\ [][NextALPN]_vars

SpecKey == InitKey /\ [][NextKey]_vars

SpecBio == InitBio /\ [][NextBio]_vars

SpecRetry == InitRetry /\ [][NextRetry]_vars

SpecCipher == InitCipher /\ [][NextCipher]_vars

\* The reader is sequential code: a step that can be taken is taken.
SpecPEM == InitPEM /\ [][NextPEM]_vars /\ WF_vars(NextPEM)

====
